---- MODULE Spec2Model ----
(***************************************************************************)
(* Model of the product ingestion controller (src/ingest.py) and of the    *)
(* query normalisation / dedupe engine (src/api.py).                       *)
(*                                                                         *)
(* The vector store, the embedding models and the page fetcher are         *)
(* external collaborators: each call to one of them either returns or      *)
(* raises, and the model draws that outcome nondeterministically.  A store *)
(* upsert that raises persists nothing (per-call atomicity, as the store   *)
(* documents it); uuid.uuid4() is modelled as a generator of identifiers   *)
(* that were never handed out before.                                      *)
(***************************************************************************)
EXTENDS Integers, Sequences, FiniteSets, TLC

(* ------------------------------------------------------------------ *)
(* Constants of the program and bounds of the model                   *)
(* ------------------------------------------------------------------ *)

\* ingest.py: BATCH_SIZE = 16
BATCH_SIZE == 16

\* longest list of product URLs one enumeration returns
MaxUrls == 18

\* at most this many calls to a collaborator raise, or pages lack an image,
\* over the modelled executions
MaxFaults == 2

\* number of earlier ingestion runs of the same collection whose points the
\* store may already hold when the modelled run starts
MaxPrevRuns == 1

\* number of product URLs those earlier runs ingested
PrevUrls == 2

\* longest list of scored points the store answers a query with
MaxRaw == 3

\* scores are 0..MaxScore
MaxScore == 1

\* largest requested limit
MaxLimit == 3

\* numeric point identifiers are 0..MaxId
MaxId == 1

\* longest list of points inside a store response given to _extract_points
MaxPoints == 1

\* largest number of <img> tags, and of structured-data images, of a page
MaxImgs == 2

\* longest query string
MaxQueryLen == 1

\* api.py line 92: limit=max(50, search_query.limit)
OVERFETCH == 50

VARIABLES
    pc,             \* position of ingest_from_store
    idx,            \* number of URLs of product_urls the for loop has taken so far
    batch,          \* batch: List[PointStruct]
    total_upserted, \* total_upserted
    k,              \* position of the per-point fallback loop in batch
    next_id,        \* number of uuid4() draws made so far, over all runs
    store,          \* the "products" collection: the persisted points
    failed_ids,     \* console: ids printed by "Single point upsert failed for id"
    printed_total,  \* console: the total printed by "Ingestion finished", or -1
    returned,       \* what ingest_from_store handed back to its caller
    cur,            \* what happened to the URL the loop took last
    faults,         \* raised collaborator calls / image-less pages so far
    submitted,      \* ids of the points passed to some qdrant_client.upsert call
    last_batch,     \* ids of the points of the latest batch upsert call
    singles,        \* ids passed one by one since the latest batch upsert call
    commits,        \* number of batch commits (batch call plus its fallback)
    sleeps,         \* number of time.sleep(SLEEP_AFTER_BATCH) calls
    earlier_runs,   \* number of earlier runs whose points the store held at the start
    s_pc,           \* position of semantic_search
    s_query,        \* search_query.query, a sequence of characters
    s_limit,        \* search_query.limit
    s_raw,          \* raw_points: what _extract_points made of the store's response
    s_result,       \* the list semantic_search returned
    http_status,    \* status code of the response, 0 before there is one
    embed_calls,    \* number of embed_text calls semantic_search made
    store_calls,    \* number of qdrant_client.query_points calls it made
    scored_point,   \* the raw entry _point_to_dict is called with
    point_dict,     \* what that call of _point_to_dict gave
    resp,           \* the store response _extract_points is called with
    raw_points,     \* what that call of _extract_points gave
    page,           \* the fetched page fetch_product_data extracts from
    pdata           \* what that call of fetch_product_data gave

ingest_vars == <<pc, idx, batch, total_upserted, k, next_id, store,
                 failed_ids, printed_total, returned, cur, faults, submitted,
                 last_batch, singles, commits, sleeps, earlier_runs>>

search_vars == <<s_pc, s_query, s_limit, s_raw, s_result, http_status,
                 embed_calls, store_calls>>

call_vars == <<scored_point, point_dict, resp, raw_points, page, pdata>>

vars == <<ingest_vars, search_vars, call_vars>>

(* ------------------------------------------------------------------ *)
(* Helpers                                                            *)
(* ------------------------------------------------------------------ *)

Range(s) == {s[i] : i \in 1..Len(s)}

Ids(s) == [i \in 1..Len(s) |-> s[i].id]

\* the outcomes of processing one product URL (ingest.py lines 80-128)
UrlOutcomes == {"url_error", "text_error", "no_images", "image_error", "full"}

Cost(o) == IF o = "full" THEN 0 ELSE 1

\* faulty variant of NewPointId: the identifier is derived from the product URL
PointIdFromUrl(url, draws) == url

\* point_id = str(uuid.uuid4()): a fresh identifier, whatever the URL
NewPointId(url, draws) == draws + 1

\* faulty variant of _build_point: the "image" slot is filled whether or not there is a vector
_build_point_always_image(point_id, has_image_vec, payload) ==
    [id      |-> point_id,
     vector  |-> {"text", "image"},
     payload |-> payload]

\* _build_point: the "text" vector always, "image" only when image_vec is not None
_build_point(point_id, has_image_vec, payload) ==
    [id      |-> point_id,
     vector  |-> IF has_image_vec THEN {"text", "image"} ELSE {"text"},
     payload |-> payload]

\* qdrant_client.upsert(points=...): a point replaces the stored point of the same id
Upsert(st, points) ==
    {q \in st : \A p \in points : p.id # q.id} \cup points

(* ------------------------------------------------------------------ *)
(* Python values                                                      *)
(* ------------------------------------------------------------------ *)

\* the dict without a key
EmptyDict == [key \in {} |-> key]

\* a Python value: its type and, by type, its number, its text, its keys (or
\* attributes) with their values, or its items
PyValue(t, n, s, d, l) == [type |-> t, int |-> n, str |-> s, dict |-> d, list |-> l]

NoneVal == PyValue("NoneType", 0, "", EmptyDict, <<>>)

\* an int or a float
NumVal(n) == PyValue("number", n, "", EmptyDict, <<>>)

StrVal(s) == PyValue("str", 0, s, EmptyDict, <<>>)

\* a str held as the sequence of its parts (characters, or segments of a URL),
\* where the program looks inside it
TextVal(q) == PyValue("text", 0, "", EmptyDict, q)

DictVal(d) == PyValue("dict", 0, "", d, <<>>)

ListVal(l) == PyValue("list", 0, "", EmptyDict, l)

TupleVal(l) == PyValue("tuple", 0, "", EmptyDict, l)

\* an object of the class `class`, with its attributes
ObjectVal(class, attrs) == PyValue(class, 0, "", attrs, <<>>)

\* stands for a key or attribute that is not there
Absent == PyValue("<absent>", 0, "", EmptyDict, <<>>)

\* the dict (or attribute set) holding the keys of `o` whose value is there
WithoutAbsent(o) == [key \in {kk \in DOMAIN o : o[kk].type # "<absent>"} |-> o[key]]

\* d.get(key, default), getattr(o, key, default)
Get(d, key, default) == IF key \in DOMAIN d THEN d[key] ELSE default

\* bool(v)
TruthyVal(v) ==
    CASE v.type \in {"NoneType", "<absent>"} -> FALSE
      [] v.type = "number"   -> v.int # 0
      [] v.type = "str"      -> v.str # ""
      [] v.type = "text"     -> v.list # <<>>
      [] v.type = "dict"     -> DOMAIN v.dict # {}
      [] v.type \in {"list", "tuple"} -> v.list # <<>>
      [] OTHER               -> TRUE

\* faulty variant of Or: the second operand is preferred
OrPrefersSecond(a, b) == IF TruthyVal(b) THEN b ELSE a

\* a or b
Or(a, b) == IF TruthyVal(a) THEN a ELSE b

\* str(v), of None, a number or a text
Str(v) ==
    CASE v.type = "NoneType" -> "None"
      [] v.type = "number"   -> ToString(v.int)
      [] OTHER               -> v.str

\* a function that was not called, or an input that was not given
NotCalled == [called |-> FALSE]

\* none of _point_to_dict, _extract_points and fetch_product_data is called
CallsIdle ==
    /\ scored_point = NotCalled
    /\ point_dict = NotCalled
    /\ resp = NotCalled
    /\ raw_points = NotCalled
    /\ page = NotCalled
    /\ pdata = NotCalled

(* ------------------------------------------------------------------ *)
(* ingest_from_store                                                  *)
(* ------------------------------------------------------------------ *)

\* the points an earlier, failure-free run over the first `m` URLs left in the store
EarlierPoints(runs, m) ==
    {_build_point(NewPointId(u, (r - 1) * m + (u - 1)), TRUE,
                  [product_url |-> u, images |-> TRUE]) :
        r \in 1..runs, u \in 1..m}

\* ingest_from_store has not been called; `runs` earlier runs filled the store
IngestIdle(runs) ==
    /\ pc = "idle"
    /\ idx = 0
    /\ batch = <<>>
    /\ total_upserted = 0
    /\ k = 0
    /\ earlier_runs = runs
    /\ next_id = runs * PrevUrls
    /\ store = EarlierPoints(runs, PrevUrls)
    /\ failed_ids = <<>>
    /\ printed_total = -1
    /\ returned = "nothing"
    /\ cur = "none"
    /\ faults = 0
    /\ submitted = {}
    /\ last_batch = <<>>
    /\ singles = <<>>
    /\ commits = 0
    /\ sleeps = 0

\* no search request has been received
SearchIdle ==
    /\ s_pc = "idle"
    /\ s_query = <<>>
    /\ s_limit = 0
    /\ s_raw = <<>>
    /\ s_result = <<>>
    /\ http_status = 0
    /\ embed_calls = 0
    /\ store_calls = 0

Init == IngestIdle(0) /\ SearchIdle /\ CallsIdle

InitReingest ==
    (\E runs \in 1..MaxPrevRuns : IngestIdle(runs)) /\ SearchIdle /\ CallsIdle

\* faulty variant of ReturnValue: the function returns a report of the run
ReturnsReport == "report"

\* what a Python function without a return value hands back (lines 63, 167)
ReturnValue == "None"

\* lines 52-76: ensure_products_collection(), fetch_collection_product_urls().
\* product_urls is a list of at most MaxUrls URLs; the loop reads it one URL at
\* a time, and the model decides at each loop head whether the list holds
\* another one, which yields the runs over every list of that length.
Start ==
    /\ UNCHANGED <<search_vars, call_vars>>
    /\ pc = "idle"
    /\ \E o \in {"ensure_raises", "enumeration_fails", "ok"} :
          /\ faults + (IF o = "ok" THEN 0 ELSE 1) <= MaxFaults
          /\ faults' = faults + (IF o = "ok" THEN 0 ELSE 1)
          /\ CASE o = "ensure_raises" ->
                    \* line 55: the exception leaves ingest_from_store
                    /\ pc' = "raised"
                    /\ UNCHANGED returned
               [] o = "enumeration_fails" ->
                    \* line 63: a bare return
                    /\ pc' = "done"
                    /\ returned' = ReturnValue
               [] OTHER ->
                    /\ pc' = "loop"
                    /\ UNCHANGED returned
    /\ UNCHANGED <<idx, batch, total_upserted, k, next_id, store, failed_ids,
                   printed_total, cur, submitted, last_batch, singles,
                   commits, sleeps, earlier_runs>>

\* faulty variant of SkipUrl: a failing URL ends the loop (break instead of continue)
SkipUrlBreaks ==
    /\ UNCHANGED <<batch, next_id>>
    /\ pc' = IF batch # <<>> THEN "final_flush" ELSE "finish"

\* lines 82-84, 96-99, 125-128: the URL is given up, the loop continues
SkipUrl ==
    /\ UNCHANGED <<batch, next_id>>
    /\ pc' = "loop"

\* lines 78-131: one iteration of the for loop, up to the flush test
ProcessUrl ==
    /\ UNCHANGED <<search_vars, call_vars>>
    /\ pc = "loop"
    /\ idx < MaxUrls
    /\ \E o \in UrlOutcomes :
          /\ faults + Cost(o) <= MaxFaults
          /\ faults' = faults + Cost(o)
          /\ cur' = o
          /\ idx' = idx + 1
          /\ IF o \in {"url_error", "text_error"}
             THEN SkipUrl
             ELSE LET url     == idx + 1
                      payload == [product_url |-> url,
                                  images |-> (o # "no_images")]
                      point   == _build_point(NewPointId(url, next_id),
                                              o = "full", payload)
                  IN  /\ batch' = Append(batch, point)
                      /\ next_id' = next_id + 1
                      /\ pc' = IF Len(batch') >= BATCH_SIZE
                               THEN "flush" ELSE "loop"
    /\ UNCHANGED <<total_upserted, k, store, failed_ids, printed_total,
                   returned, submitted, last_batch, singles, commits, sleeps,
                   earlier_runs>>

\* faulty variant of BatchUpsert: the batch is not emptied after its commit
BatchUpsertKeepsBatch(ok, pc_ok, pc_failed, batch_after) ==
    /\ faults + (IF ok THEN 0 ELSE 1) <= MaxFaults
    /\ faults' = faults + (IF ok THEN 0 ELSE 1)
    /\ submitted' = submitted \cup {p.id : p \in Range(batch)}
    /\ last_batch' = Ids(batch)
    /\ singles' = <<>>
    /\ commits' = commits + 1
    /\ IF ok
       THEN /\ store' = Upsert(store, Range(batch))
            /\ total_upserted' = total_upserted + Len(batch)
            /\ pc' = pc_ok
            /\ UNCHANGED <<k, batch>>
       ELSE /\ k' = 1
            /\ pc' = pc_failed
            /\ UNCHANGED <<store, total_upserted, batch>>

\* the batch upsert of lines 132-138 and of lines 152-158
BatchUpsert(ok, pc_ok, pc_failed, batch_after) ==
    /\ faults + (IF ok THEN 0 ELSE 1) <= MaxFaults
    /\ faults' = faults + (IF ok THEN 0 ELSE 1)
    /\ submitted' = submitted \cup {p.id : p \in Range(batch)}
    /\ last_batch' = Ids(batch)
    /\ singles' = <<>>
    /\ commits' = commits + 1
    /\ IF ok
       THEN /\ store' = Upsert(store, Range(batch))
            /\ total_upserted' = total_upserted + Len(batch)
            /\ batch' = batch_after
            /\ pc' = pc_ok
            /\ UNCHANGED k
       ELSE /\ k' = 1
            /\ pc' = pc_failed
            /\ UNCHANGED <<store, total_upserted, batch>>

\* faulty variant of SingleUpsert: the count is incremented for every attempt,
\* acknowledged or not
SingleUpsertCountsAttempt(ok, pc_after, batch_after) ==
    /\ k <= Len(batch)
    /\ faults + (IF ok THEN 0 ELSE 1) <= MaxFaults
    /\ faults' = faults + (IF ok THEN 0 ELSE 1)
    /\ submitted' = submitted \cup {batch[k].id}
    /\ singles' = Append(singles, batch[k].id)
    /\ total_upserted' = total_upserted + 1
    /\ IF ok
       THEN /\ store' = Upsert(store, {batch[k]})
            /\ UNCHANGED failed_ids
       ELSE /\ failed_ids' = Append(failed_ids, batch[k].id)
            /\ UNCHANGED store
    /\ IF k = Len(batch)
       THEN /\ pc' = pc_after
            /\ batch' = batch_after
            /\ k' = 0
       ELSE /\ pc' = pc
            /\ k' = k + 1
            /\ UNCHANGED batch

\* faulty variant of SingleUpsert: the first failing point ends the per-point loop
SingleUpsertStopsAtFailure(ok, pc_after, batch_after) ==
    /\ k <= Len(batch)
    /\ faults + (IF ok THEN 0 ELSE 1) <= MaxFaults
    /\ faults' = faults + (IF ok THEN 0 ELSE 1)
    /\ submitted' = submitted \cup {batch[k].id}
    /\ singles' = Append(singles, batch[k].id)
    /\ IF ok
       THEN /\ store' = Upsert(store, {batch[k]})
            /\ total_upserted' = total_upserted + 1
            /\ UNCHANGED failed_ids
       ELSE /\ failed_ids' = Append(failed_ids, batch[k].id)
            /\ UNCHANGED <<store, total_upserted>>
    /\ IF k = Len(batch) \/ ~ok
       THEN /\ pc' = pc_after
            /\ batch' = batch_after
            /\ k' = 0
       ELSE /\ pc' = pc
            /\ k' = k + 1
            /\ UNCHANGED batch

\* one iteration of the per-point loop of lines 140-145 and of lines 160-165
SingleUpsert(ok, pc_after, batch_after) ==
    /\ k <= Len(batch)
    /\ faults + (IF ok THEN 0 ELSE 1) <= MaxFaults
    /\ faults' = faults + (IF ok THEN 0 ELSE 1)
    /\ submitted' = submitted \cup {batch[k].id}
    /\ singles' = Append(singles, batch[k].id)
    /\ IF ok
       THEN /\ store' = Upsert(store, {batch[k]})
            /\ total_upserted' = total_upserted + 1
            /\ UNCHANGED failed_ids
       ELSE /\ failed_ids' = Append(failed_ids, batch[k].id)
            /\ UNCHANGED <<store, total_upserted>>
    /\ IF k = Len(batch)
       THEN /\ pc' = pc_after
            /\ batch' = batch_after
            /\ k' = 0
       ELSE /\ pc' = pc
            /\ k' = k + 1
            /\ UNCHANGED batch

\* lines 131-138: the batch is full
FlushBatch ==
    /\ UNCHANGED <<search_vars, call_vars>>
    /\ pc = "flush"
    /\ \E ok \in BOOLEAN : BatchUpsert(ok, "sleep", "fallback", <<>>)
    /\ UNCHANGED <<idx, next_id, failed_ids, printed_total, returned, cur,
                   sleeps, earlier_runs>>

\* lines 140-147
FallbackPoint ==
    /\ UNCHANGED <<search_vars, call_vars>>
    /\ pc = "fallback"
    /\ \E ok \in BOOLEAN : SingleUpsert(ok, "sleep", <<>>)
    /\ UNCHANGED <<idx, next_id, printed_total, returned, cur, last_batch,
                   commits, sleeps, earlier_runs>>

\* faulty variant of Sleep: the run goes on without the pause
SleepSkipped ==
    /\ UNCHANGED <<search_vars, call_vars>>
    /\ pc = "sleep"
    /\ pc' = "loop"
    /\ UNCHANGED <<idx, batch, total_upserted, k, next_id, store,
                   failed_ids, printed_total, returned, cur, faults, submitted,
                   last_batch, singles, commits, sleeps, earlier_runs>>

\* line 148
Sleep ==
    /\ UNCHANGED <<search_vars, call_vars>>
    /\ pc = "sleep"
    /\ sleeps' = sleeps + 1
    /\ pc' = "loop"
    /\ UNCHANGED <<idx, batch, total_upserted, k, next_id, store,
                   failed_ids, printed_total, returned, cur, faults, submitted,
                   last_batch, singles, commits, earlier_runs>>

\* faulty variant of LoopExit: the final flush is left out
LoopExitWithoutFinalFlush ==
    /\ UNCHANGED <<search_vars, call_vars>>
    /\ pc = "loop"
    /\ pc' = "finish"
    /\ UNCHANGED <<idx, batch, total_upserted, k, next_id, store,
                   failed_ids, printed_total, returned, cur, faults, submitted,
                   last_batch, singles, commits, sleeps, earlier_runs>>

\* lines 78, 150-151: product_urls holds no further URL
LoopExit ==
    /\ UNCHANGED <<search_vars, call_vars>>
    /\ pc = "loop"
    /\ pc' = IF batch # <<>> THEN "final_flush" ELSE "finish"
    /\ UNCHANGED <<idx, batch, total_upserted, k, next_id, store,
                   failed_ids, printed_total, returned, cur, faults, submitted,
                   last_batch, singles, commits, sleeps, earlier_runs>>

\* lines 152-158
FinalFlush ==
    /\ UNCHANGED <<search_vars, call_vars>>
    /\ pc = "final_flush"
    /\ \E ok \in BOOLEAN : BatchUpsert(ok, "finish", "final_fallback", batch)
    /\ UNCHANGED <<idx, next_id, failed_ids, printed_total, returned, cur,
                   sleeps, earlier_runs>>

\* lines 160-165
FinalFallbackPoint ==
    /\ UNCHANGED <<search_vars, call_vars>>
    /\ pc = "final_fallback"
    /\ \E ok \in BOOLEAN : SingleUpsert(ok, "finish", batch)
    /\ UNCHANGED <<idx, next_id, printed_total, returned, cur, last_batch,
                   commits, sleeps, earlier_runs>>

\* line 167, and the implicit return
Finish ==
    /\ UNCHANGED <<search_vars, call_vars>>
    /\ pc = "finish"
    /\ printed_total' = total_upserted
    /\ returned' = ReturnValue
    /\ pc' = "done"
    /\ UNCHANGED <<idx, batch, total_upserted, k, next_id, store,
                   failed_ids, cur, faults, submitted, last_batch, singles,
                   commits, sleeps, earlier_runs>>

(* ------------------------------------------------------------------ *)
(* semantic_search                                                    *)
(* ------------------------------------------------------------------ *)

\* Python's None, where a payload value is null or its key is missing
PyNone == "<None>"

\* characters str.strip() removes (the ones a modelled query can hold)
Whitespace == {" ", "\t"}

\* the characters of the modelled queries
Chars == Whitespace \cup {"a"}

Queries == UNION {[1..m -> Chars] : m \in 0..MaxQueryLen}

Limits == (0 - 1)..MaxLimit

ProductUrls == {PyNone, "", "u1", "u2"}

\* what the store knows of a scored point, its id aside
ScoredPayloads == [score : 0..MaxScore, payload : [product_url : ProductUrls]]

\* a response of the store: a list of ScoredPoint objects, the id of a point
\* being its place in the response
Response(f) ==
    [i \in DOMAIN f |->
        ObjectVal("ScoredPoint", [id      |-> NumVal(i),
                                  score   |-> NumVal(f[i].score),
                                  payload |-> DictVal(f[i].payload)])]

\* _extract_points (lines 27-43)
_extract_points(r) ==
    CASE r.type = "NoneType" -> ListVal(<<>>)
      [] r.type = "QueryResponse" -> Or(r.dict.points, ListVal(<<>>))
      [] r.type = "dict" ->
            IF "result" \in DOMAIN r.dict THEN Or(r.dict.result, ListVal(<<>>))
            ELSE IF "points" \in DOMAIN r.dict THEN Or(r.dict.points, ListVal(<<>>))
            ELSE ListVal(<<>>)
      [] r.type \in {"list", "tuple"} -> ListVal(r.list)
      [] OTHER -> Or(Get(r.dict, "points", ListVal(<<>>)), ListVal(<<>>))

\* line 107, `for p in raw_points`: what Python can iterate over
Iterable(v) == v.type \in {"list", "tuple", "dict", "str"}

\* the lists of scored points a response may hold
PointLists ==
    {Response(f) :
        f \in UNION {[1..m -> [score : {1}, payload : [product_url : {"u1", PyNone}]]] :
                        m \in 0..MaxPoints}}

\* what a mapping response may hold under "result" or "points", and an object
\* under its attribute `points`
ValuesUnderKey ==
    {NoneVal, NumVal(0), NumVal(1), StrVal("error"), Absent}
    \cup {ListVal(l) : l \in PointLists}
    \cup {TupleVal(l) : l \in PointLists}
    \cup {DictVal([points |-> ListVal(l)]) : l \in PointLists}

\* _extract_points is about to be called with some response: absent, a
\* QueryResponse, a mapping, a list, a tuple, or any other object
InitExtract ==
    /\ IngestIdle(0) /\ SearchIdle
    /\ \/ resp = NoneVal
       \/ \E v \in {NoneVal} \cup {ListVal(l) : l \in PointLists} :
             resp = ObjectVal("QueryResponse", [points |-> v])
       \/ \E a \in ValuesUnderKey, b \in ValuesUnderKey, c \in {StrVal("ok"), Absent} :
             resp = DictVal(WithoutAbsent([result |-> a, points |-> b, status |-> c]))
       \/ \E l \in PointLists : resp = ListVal(l) \/ resp = TupleVal(l)
       \/ \E v \in ValuesUnderKey : resp = ObjectVal("object", WithoutAbsent([points |-> v]))
    /\ raw_points = NotCalled
    /\ scored_point = NotCalled /\ point_dict = NotCalled
    /\ page = NotCalled /\ pdata = NotCalled

\* lines 101-107: raw_points = _extract_points(resp), and the loop over it starts
Call_extract_points ==
    /\ ~raw_points.called
    /\ raw_points' = [called      |-> TRUE,
                      value       |-> _extract_points(resp),
                      loop_raises |-> ~Iterable(_extract_points(resp))]
    /\ UNCHANGED <<ingest_vars, search_vars, resp, scored_point, point_dict,
                   page, pdata>>

\* str.strip(): leading and trailing whitespace removed
RECURSIVE LStrip(_)
LStrip(q) ==
    IF q # <<>> /\ Head(q) \in Whitespace THEN LStrip(Tail(q)) ELSE q

RECURSIVE RStrip(_)
RStrip(q) ==
    IF q # <<>> /\ q[Len(q)] \in Whitespace
    THEN RStrip(SubSeq(q, 1, Len(q) - 1)) ELSE q

Strip(q) == RStrip(LStrip(q))

\* faulty variant of EmptyQuery: the query is not stripped before the test
EmptyQueryUnstripped(q) == q = <<>>

\* line 77: not search_query.query or not search_query.query.strip()
EmptyQuery(q) == q = <<>> \/ Strip(q) = <<>>

\* Python truthiness of a payload value: None and "" are falsy
Truthy(v) == v # PyNone /\ v # ""

\* _point_to_dict (lines 45-64).  A mapping is read through its keys and, for
\* the id and the payload, through the mapping under its "point" key when its
\* own value is falsy (lines 48-50); any other object is read through its
\* attributes (lines 52-54).  A payload value is a text or PyNone.
_point_to_dict(p) ==
    LET nested  == Or(Get(p.dict, "point", NoneVal), DictVal(EmptyDict)).dict
        pid     == IF p.type = "dict"
                   THEN Or(Get(p.dict, "id", NoneVal), Get(nested, "id", NoneVal))
                   ELSE Get(p.dict, "id", NoneVal)
        score   == Get(p.dict, "score", NumVal(0))
        payload == IF p.type = "dict"
                   THEN Or(Or(Get(p.dict, "payload", NoneVal),
                              Get(nested, "payload", NoneVal)),
                           DictVal(EmptyDict))
                   ELSE Or(Get(p.dict, "payload", NoneVal), DictVal(EmptyDict))
    IN  [id          |-> Str(pid),
         title       |-> Get(payload.dict, "title", PyNone),
         description |-> Get(payload.dict, "description", PyNone),
         price       |-> Get(payload.dict, "price", PyNone),
         product_url |-> Get(payload.dict, "product_url", PyNone),
         images      |-> Get(payload.dict, "images", PyNone),
         score       |-> Or(score, NumVal(0)).int]

\* the identifiers a raw entry may carry: numbers, a uuid text, null, or none
IdValues == {NumVal(i) : i \in 0..MaxId} \cup {StrVal("a"), NoneVal, Absent}

\* the scores a raw entry may carry
ScoreValues == {NumVal(x) : x \in 0..MaxScore} \cup {NoneVal, Absent}

\* the payloads a raw entry may carry: no key, some keys, every key
PayloadValues ==
    {DictVal(EmptyDict),
     DictVal([product_url |-> "u1"]),
     DictVal([title |-> "t", description |-> PyNone, price |-> "9.5",
              product_url |-> "", images |-> "imgs"]),
     NoneVal, Absent}

\* what a mapping entry may hold under its "point" key
NestedValues ==
    {NoneVal, Absent} \cup
    {DictVal(WithoutAbsent([id |-> i, payload |-> pl])) :
        i \in IdValues, pl \in PayloadValues}

\* _point_to_dict is about to be called with some raw entry: a mapping or an
\* attribute-bearing object
InitPoint ==
    /\ IngestIdle(0) /\ SearchIdle
    /\ \E i \in IdValues, x \in ScoreValues, pl \in PayloadValues :
          \/ \E n \in NestedValues :
                scored_point =
                    DictVal(WithoutAbsent([id |-> i, score |-> x, payload |-> pl,
                                           point |-> n]))
          \/ scored_point =
                ObjectVal("ScoredPoint",
                          WithoutAbsent([id |-> i, score |-> x, payload |-> pl]))
    /\ point_dict = NotCalled
    /\ resp = NotCalled /\ raw_points = NotCalled
    /\ page = NotCalled /\ pdata = NotCalled

\* the call _point_to_dict(scored_point)
Call_point_to_dict ==
    /\ ~point_dict.called
    /\ point_dict' = [called |-> TRUE, value |-> _point_to_dict(scored_point)]
    /\ UNCHANGED <<ingest_vars, search_vars, scored_point, resp, raw_points,
                   page, pdata>>

\* place of the key `url` in the dict's insertion order, 0 when it is no key
KeyIndex(map, url) ==
    IF \E i \in 1..Len(map) : map[i].product_url = url
    THEN CHOOSE i \in 1..Len(map) : map[i].product_url = url
    ELSE 0

\* faulty variant of Replaces: an entry of equal score replaces the one kept so far
ReplacesOnTie(d, existing) == d.score >= existing.score

\* line 112: if not existing or d["score"] > existing["score"]
Replaces(d, existing) == d.score > existing.score

\* lines 108-115: one iteration of the loop over raw_points; `acc` holds
\* dedupe_map (its values, in insertion order) and fallback_list
DedupeStep(acc, p) ==
    LET d   == _point_to_dict(p)
        url == d.product_url
        i   == KeyIndex(acc.dedupe_map, url)
    IN  IF Truthy(url)
        THEN IF i = 0
             THEN [acc EXCEPT !.dedupe_map = Append(@, d)]
             ELSE IF Replaces(d, acc.dedupe_map[i])
                  THEN [acc EXCEPT !.dedupe_map[i] = d]
                  ELSE acc
        ELSE [acc EXCEPT !.fallback_list = Append(@, d)]

RECURSIVE DedupeLoop(_, _)
DedupeLoop(acc, raw) ==
    IF raw = <<>> THEN acc
    ELSE DedupeLoop(DedupeStep(acc, Head(raw)), Tail(raw))

\* line 118: combined = list(dedupe_map.values()) + fallback_list
Combined(raw) ==
    LET acc == DedupeLoop([dedupe_map |-> <<>>, fallback_list |-> <<>>], raw)
    IN  acc.dedupe_map \o acc.fallback_list

\* where list.sort(key=score, reverse=True) puts `d` among the already sorted
\* `sorted`: after every entry whose score is not lower (the sort is stable)
InsertSorted(sorted, d) ==
    LET before == Cardinality({i \in 1..Len(sorted) : sorted[i].score >= d.score})
    IN  SubSeq(sorted, 1, before) \o <<d>> \o SubSeq(sorted, before + 1, Len(sorted))

RECURSIVE SortLoop(_, _)
SortLoop(sorted, rest) ==
    IF rest = <<>> THEN sorted
    ELSE SortLoop(InsertSorted(sorted, Head(rest)), Tail(rest))

\* line 120: combined.sort(key=lambda x: x.get("score", 0.0), reverse=True)
SortByScoreDesc(list) == SortLoop(<<>>, list)

\* line 121: list[:limit]; a negative limit counts from the end of the list
SliceTo(list, limit) ==
    IF limit >= 0
    THEN SubSeq(list, 1, IF limit < Len(list) THEN limit ELSE Len(list))
    ELSE SubSeq(list, 1, IF Len(list) + limit > 0 THEN Len(list) + limit ELSE 0)

\* lines 103-123
Normalize(raw, limit) == SliceTo(SortByScoreDesc(Combined(raw)), limit)

\* lines 77-78: the request is turned down with status 400
RejectEmpty ==
    /\ s_pc' = "rejected"
    /\ http_status' = 400
    /\ UNCHANGED <<s_raw, s_result, embed_calls, store_calls>>

\* lines 76-84: the request is validated and its query embedded
semantic_search ==
    /\ s_pc = "idle"
    /\ \E q \in Queries, limit \in Limits :
          /\ s_query' = q
          /\ s_limit' = limit
          /\ IF EmptyQuery(q)
             THEN RejectEmpty
             ELSE /\ embed_calls' = embed_calls + 1
                  /\ UNCHANGED <<s_raw, s_result, store_calls>>
                  /\ \/ \* lines 83-84: embed_text raises
                        /\ s_pc' = "embedding_failed"
                        /\ http_status' = 500
                     \/ \* line 82: qvec is there
                        /\ s_pc' = "embedded"
                        /\ UNCHANGED http_status
    /\ UNCHANGED <<ingest_vars, call_vars>>

\* lines 86-123: the store is queried and its response normalised and returned
semantic_search_query ==
    /\ s_pc = "embedded"
    /\ store_calls' = store_calls + 1
    /\ \/ \* lines 98-99: query_points raises
          /\ s_pc' = "query_failed"
          /\ http_status' = 500
          /\ UNCHANGED <<s_raw, s_result>>
       \/ \* lines 101-123
          \E m \in 0..MaxRaw : \E f \in [1..m -> ScoredPayloads] :
             /\ m <= (IF s_limit > OVERFETCH THEN s_limit ELSE OVERFETCH)
             /\ s_pc' = "responded"
             /\ http_status' = 200
             /\ LET r == ObjectVal("QueryResponse", [points |-> ListVal(Response(f))])
                IN  /\ s_raw' = _extract_points(r).list
                    /\ s_result' = Normalize(_extract_points(r).list, s_limit)
    /\ UNCHANGED <<s_query, s_limit, embed_calls>>
    /\ UNCHANGED <<ingest_vars, call_vars>>

(* ------------------------------------------------------------------ *)
(* fetch_product_data (src/data.py)                                    *)
(* ------------------------------------------------------------------ *)

\* "product" in t.lower(), for the @type values of the modelled pages
ProductLike(t) == t.type = "str" /\ t.str \in {"Product", "ProductGroup"}

\* lines 57-60: the items of a JSON list; an item that is no mapping raises at
\* item.get, which line 70 catches: the tag is given up (NoneVal)
RECURSIVE ScanList(_)
ScanList(items) ==
    IF items = <<>> THEN NoneVal
    ELSE LET item == Head(items)
         IN  IF item.type # "dict" THEN NoneVal
             ELSE IF ProductLike(Get(item.dict, "@type", StrVal("")))
                  THEN item ELSE ScanList(Tail(items))

\* lines 67-69: the items of "@graph"; (t or "").lower() also raises on a
\* truthy @type that is no str
RECURSIVE ScanGraph(_)
ScanGraph(items) ==
    IF items = <<>> THEN NoneVal
    ELSE LET item == Head(items)
             t    == Or(Get(item.dict, "@type", StrVal("")), StrVal(""))
         IN  IF item.type # "dict" \/ t.type # "str" THEN NoneVal
             ELSE IF ProductLike(t) THEN item ELSE ScanGraph(Tail(items))

\* parse_ld_json (lines 47-72); `tags` holds what json.loads gives for each
\* ld+json script tag, in page order (any other value: no text, or no JSON)
RECURSIVE parse_ld_json(_)
parse_ld_json(tags) ==
    IF tags = <<>> THEN NoneVal
    ELSE LET data  == Head(tags)
             found ==
                CASE data.type = "list" -> ScanList(data.list)
                  [] data.type = "dict" ->
                        IF ProductLike(Get(data.dict, "@type", StrVal("")))
                        THEN data
                        ELSE IF /\ "@graph" \in DOMAIN data.dict
                                /\ data.dict["@graph"].type = "list"
                             THEN ScanGraph(data.dict["@graph"].list)
                             ELSE NoneVal
                  [] OTHER -> NoneVal
         IN  IF found.type = "dict" THEN found ELSE parse_ld_json(Tail(tags))

\* the digits of the modelled price texts
Digits == {"1", "2", "3"}

DigitValue(c) == CASE c = "1" -> 1 [] c = "2" -> 2 [] OTHER -> 3

\* text.replace(",", "")
RECURSIVE RemoveCommas(_)
RemoveCommas(q) ==
    IF q = <<>> THEN <<>>
    ELSE (IF Head(q) = "," THEN <<>> ELSE <<Head(q)>>) \o RemoveCommas(Tail(q))

\* float(text): the number, or NoneVal where float raises.  Of the modelled
\* texts only a run of digits is a number (a lone "." is none)
RECURSIVE Decimal(_)
Decimal(q) == IF q = <<>> THEN 0 ELSE 10 * Decimal(SubSeq(q, 1, Len(q) - 1)) + DigitValue(q[Len(q)])

Float(q) ==
    IF q # <<>> /\ \A i \in 1..Len(q) : q[i] \in Digits
    THEN NumVal(Decimal(q)) ELSE NoneVal

\* extract_price_from_ld (lines 75-86)
extract_price_from_ld(ld) ==
    LET offers == Get(ld.dict, "offers", NoneVal)
        price  == Get(offers.dict, "price", NoneVal)
    IN  IF ~TruthyVal(ld) \/ offers.type # "dict" THEN NoneVal
        ELSE CASE price.type = "number" -> price
               [] price.type = "text"   -> Float(RemoveCommas(price.list))
               [] OTHER                 -> NoneVal

\* extract_images_from_ld (lines 89-95)
extract_images_from_ld(ld) ==
    LET imgs == Or(Or(Get(ld.dict, "image", NoneVal), Get(ld.dict, "images", NoneVal)),
                   ListVal(<<>>))
    IN  IF ~TruthyVal(ld) THEN ListVal(<<>>)
        ELSE IF imgs.type = "text" THEN ListVal(<<imgs.list>>)
        ELSE imgs

\* extract_og (lines 98-109); pg.meta holds the content of the three meta tags
extract_og(pg) ==
    WithoutAbsent(
        [title       |-> IF TruthyVal(pg.meta.title) THEN pg.meta.title ELSE Absent,
         description |-> IF TruthyVal(pg.meta.description)
                         THEN pg.meta.description ELSE Absent,
         images      |-> IF TruthyVal(pg.meta.image)
                         THEN ListVal(<<pg.meta.image.list>>) ELSE Absent])

\* re.search(r"([\d\.,]+)", text): the first run of digits, dots and commas
NumberChars == Digits \cup {".", ","}

RECURSIVE TakeRun(_)
TakeRun(q) ==
    IF q # <<>> /\ Head(q) \in NumberChars THEN <<Head(q)>> \o TakeRun(Tail(q)) ELSE <<>>

RECURSIVE FirstRun(_)
FirstRun(q) ==
    IF q = <<>> THEN <<>>
    ELSE IF Head(q) \in NumberChars THEN TakeRun(q) ELSE FirstRun(Tail(q))

\* extract_price_by_selectors (lines 112-128); `els` holds the text of the
\* element each matching selector finds, in the order of the selector list
RECURSIVE extract_price_by_selectors(_)
extract_price_by_selectors(els) ==
    IF els = <<>> THEN NoneVal
    ELSE LET m == FirstRun(RemoveCommas(Head(els)))
         IN  IF m # <<>> /\ Float(m).type = "number"
             THEN Float(m) ELSE extract_price_by_selectors(Tail(els))

\* extract_price_from_js (lines 131-144); `js` holds what each of the two
\* regular expressions matches in the raw markup
extract_price_from_js(js) ==
    IF js.quoted.type = "text" /\ Float(RemoveCommas(js.quoted.list)).type = "number"
    THEN Float(RemoveCommas(js.quoted.list))
    ELSE IF js.bare.type = "text" /\ Float(RemoveCommas(js.bare.list)).type = "number"
    THEN Float(RemoveCommas(js.bare.list))
    ELSE NoneVal

\* "icon" in full or "sprite" in full (line 202)
IconOrSprite(url) == \E i \in 1..Len(url) : url[i] \in {"icon", "sprite"}

\* urljoin(product_url, src): a relative source is put under the page's site
urljoin(base, src) == IF src.relative THEN <<Head(base)>> \o src.path ELSE src.path

\* lines 196-204: the sources of the img tags that are kept, made absolute
RECURSIVE ImgSources(_, _)
ImgSources(base, tags) ==
    IF tags = <<>> THEN <<>>
    ELSE LET src  == Head(tags)
             full == urljoin(base, src)
         IN  (IF src.path = <<>> \/ IconOrSprite(full) THEN <<>> ELSE <<full>>)
                \o ImgSources(base, Tail(tags))

\* line 207: duplicates dropped, the first occurrence kept
RECURSIVE DedupeImages(_)
DedupeImages(imgs) ==
    IF imgs = <<>> THEN <<>>
    ELSE LET front == DedupeImages(SubSeq(imgs, 1, Len(imgs) - 1))
             last  == imgs[Len(imgs)]
         IN  IF \E i \in 1..Len(front) : front[i] = last
             THEN front ELSE Append(front, last)

\* x.strip() raises on a truthy value that is no str (lines 211-212)
StripRaises(v) == TruthyVal(v) /\ v.type # "text"

\* fetch_product_data, from line 156 on (the markup is fetched)
fetch_product_data(pg) ==
    LET ld           == parse_ld_json(pg.scripts)
        \* lines 164-168
        ld_descr     == Get(ld.dict, "description", NoneVal)
        review       == Get(ld.dict, "review", DictVal(EmptyDict))
        ReviewRaises == TruthyVal(ld) /\ ~TruthyVal(ld_descr) /\ review.type # "dict"
        title1       == IF TruthyVal(ld)
                        THEN Or(Get(ld.dict, "name", NoneVal),
                                Get(ld.dict, "headline", NoneVal))
                        ELSE NoneVal
        description1 == IF TruthyVal(ld)
                        THEN Or(ld_descr, Get(review.dict, "reviewBody", NoneVal))
                        ELSE NoneVal
        price1       == extract_price_from_ld(ld)
        images1      == extract_images_from_ld(ld)
        \* lines 171-175
        og           == extract_og(pg)
        title2       == IF DOMAIN og # {}
                        THEN Or(title1, Get(og, "title", NoneVal)) ELSE title1
        description2 == IF DOMAIN og # {}
                        THEN Or(description1, Get(og, "description", NoneVal))
                        ELSE description1
        images2      == IF DOMAIN og # {}
                        THEN Or(images1, Get(og, "images", ListVal(<<>>)))
                        ELSE images1
        \* lines 178-191
        title3       == IF ~TruthyVal(title2) /\ pg.title_el.type = "text"
                        THEN TextVal(Strip(pg.title_el.list)) ELSE title2
        description3 == IF ~TruthyVal(description2) /\ pg.desc_el.type = "text"
                        THEN TextVal(Strip(pg.desc_el.list)) ELSE description2
        price2       == IF price1.type = "NoneType"
                        THEN extract_price_by_selectors(pg.price_els) ELSE price1
        price3       == IF price2.type = "NoneType"
                        THEN extract_price_from_js(pg.js) ELSE price2
        \* lines 194-207
        images3      == IF ~TruthyVal(images2)
                        THEN ListVal(DedupeImages(ImgSources(pg.product_url, pg.imgs)))
                        ELSE images2
    IN  IF ReviewRaises \/ StripRaises(title3) \/ StripRaises(description3)
        THEN [raised |-> TRUE, value |-> NotCalled]
        ELSE [raised |-> FALSE,
              value  |-> [product_url |-> pg.product_url,
                          title       |-> Strip(Or(title3, TextVal(<<>>)).list),
                          description |-> Strip(Or(description3, TextVal(<<>>)).list),
                          price       |-> price3,
                          images      |-> images3]]

\* a structured-data object of @type Product with the given values
LdProduct(name, headline, description, review, offers, image) ==
    DictVal(WithoutAbsent(
        ("@type" :> StrVal("Product")) @@
        [name |-> name, headline |-> headline, description |-> description,
         review |-> review, offers |-> offers, image |-> image]))

\* a page: what json.loads gives for its ld+json tags, the content of its meta
\* tags, the text of the elements its selectors find, what the price regular
\* expressions match in its markup, and the sources of its img tags
Page(scripts, meta, title_el, desc_el, price_els, js, imgs) ==
    [product_url |-> <<"shop", "p1">>,
     scripts     |-> scripts,
     meta        |-> meta,
     title_el    |-> title_el,
     desc_el     |-> desc_el,
     price_els   |-> price_els,
     js          |-> js,
     imgs        |-> imgs]

NoMeta == [title |-> Absent, description |-> Absent, image |-> Absent]

NoJs == [quoted |-> Absent, bare |-> Absent]

\* absolute image URLs of structured data and meta tags
ImageUrls == {<<"cdn", x>> : x \in {"a", "icon", "sprite"}}

\* sources of img tags (the empty path: a tag without source)
ImgTags ==
    {[relative |-> TRUE, path |-> <<>>],
     [relative |-> TRUE, path |-> <<"b">>],
     [relative |-> TRUE, path |-> <<"icon">>],
     [relative |-> FALSE, path |-> <<"cdn", "a">>]}

SeqsUpTo(S, n) == UNION {[1..m -> S] : m \in 0..n}

\* the page differs from others in its images
InitImagePage ==
    \E image \in {Absent, DictVal([url |-> TextVal(<<"cdn", "a">>)])}
                    \cup {TextVal(u) : u \in ImageUrls}
                    \cup {ListVal(l) : l \in SeqsUpTo(ImageUrls, MaxImgs)},
       og_image \in {Absent} \cup {TextVal(u) : u \in ImageUrls},
       imgs \in SeqsUpTo(ImgTags, MaxImgs) :
        page = Page(<<LdProduct(TextVal(<<"n">>), Absent, Absent, Absent, Absent, image)>>,
                    [NoMeta EXCEPT !.image = og_image], Absent, Absent, <<>>, NoJs, imgs)

\* the ld+json tags of a page with the structured-data object `ld`, or with none
FieldScripts ==
    {<<>>} \cup
    {<<LdProduct(name, headline, description, review, offers, Absent)>> :
        name \in {Absent, TextVal(<<"n">>), TextVal(<<" ">>)},
        headline \in {Absent, TextVal(<<"h">>)},
        description \in {Absent, TextVal(<<"d">>)},
        review \in {Absent, DictVal([reviewBody |-> TextVal(<<"r">>)])},
        offers \in {Absent,
                    DictVal([price |-> NumVal(1)]),
                    DictVal([price |-> TextVal(<<"1", ",", "2">>)]),
                    DictVal([price |-> TextVal(<<"x">>)]),
                    ListVal(<<DictVal([price |-> NumVal(1)])>>)}}

\* the page differs from others in the sources of title, description and price
InitFieldPage ==
    \E scripts \in FieldScripts,
       og_title \in {Absent, TextVal(<<"o">>)},
       og_descr \in {Absent, TextVal(<<"o">>)},
       title_el \in {Absent, TextVal(<<" ", "s">>)},
       desc_el \in {Absent, TextVal(<<"s", " ">>)},
       price_els \in {<<>>, <<(<<"2">>)>>, <<(<<"R", ".">>)>>,
                      <<(<<"R", ".", " ", "2">>), (<<"3", ",", "1">>)>>},
       js \in [quoted : {Absent, TextVal(<<"3">>)},
               bare : {Absent, TextVal(<<"1", ",", "3">>)}] :
        page = Page(scripts, [NoMeta EXCEPT !.title = og_title, !.description = og_descr],
                    title_el, desc_el, price_els, js, <<>>)

\* the places a structured-data object may have among the ld+json tags: alone,
\* after a tag without JSON, inside a list, after a list it is given up in,
\* inside the @graph of another object
Wrappings(ld) ==
    {<<ld>>, <<Absent, ld>>, <<ListVal(<<ld>>)>>, <<ListVal(<<NumVal(1), ld>>), ld>>,
     <<DictVal(("@type" :> StrVal("WebSite")) @@ ("@graph" :> ListVal(<<ld>>)))>>}

\* the structured data of the page is of unexpected shape or type
InitTypePage ==
    \E name \in {Absent, TextVal(<<"n">>), NumVal(0), NumVal(1)},
       description \in {Absent, TextVal(<<"d">>), ListVal(<<>>)},
       review \in {Absent, NoneVal, DictVal(EmptyDict),
                   ListVal(<<DictVal([reviewBody |-> TextVal(<<"r">>)])>>)},
       offers \in {Absent, TextVal(<<"1">>), ListVal(<<>>)},
       image \in {Absent, NumVal(1), DictVal([url |-> TextVal(<<"cdn", "a">>)])} :
        \E scripts \in Wrappings(LdProduct(name, Absent, description, review,
                                            offers, image)) :
            page = Page(scripts, [NoMeta EXCEPT !.title = TextVal(<<"o">>)],
                        Absent, Absent, <<>>, NoJs, <<>>)

\* the markup of some page was fetched and fetch_product_data is at line 156
InitPage ==
    /\ IngestIdle(0) /\ SearchIdle
    /\ (InitImagePage \/ InitFieldPage \/ InitTypePage)
    /\ pdata = NotCalled
    /\ scored_point = NotCalled /\ point_dict = NotCalled
    /\ resp = NotCalled /\ raw_points = NotCalled

\* lines 156-215 of the call fetch_product_data(product_url)
Call_fetch_product_data ==
    /\ ~pdata.called
    /\ pdata' = [called |-> TRUE,
                 raised |-> fetch_product_data(page).raised,
                 value  |-> fetch_product_data(page).value]
    /\ UNCHANGED <<ingest_vars, search_vars, page, scored_point, point_dict,
                   resp, raw_points>>

Next ==
    \/ Start
    \/ ProcessUrl
    \/ FlushBatch
    \/ FallbackPoint
    \/ Sleep
    \/ LoopExit
    \/ FinalFlush
    \/ FinalFallbackPoint
    \/ Finish

Spec == Init /\ [][Next]_vars

SpecReingest == InitReingest /\ [][Next]_vars

NextSearch ==
    \/ semantic_search
    \/ semantic_search_query

SpecSearch == Init /\ [][NextSearch]_vars

SpecLive == Spec /\ WF_vars(Next)

SpecPoint == InitPoint /\ [][Call_point_to_dict]_vars

SpecExtract == InitExtract /\ [][Call_extract_points]_vars

SpecPage == InitPage /\ [][Call_fetch_product_data]_vars

(* ------------------------------------------------------------------ *)
(* Properties of ingest_from_store                                    *)
(* ------------------------------------------------------------------ *)

StoreIds == {p.id : p \in store}

InFallback == pc \in {"fallback", "final_fallback"}

\* the URL step just taken gave the URL up (fetch, extraction or text embedding)
UrlFailed == pc = "loop" /\ idx' = idx + 1 /\ cur' \in {"url_error", "text_error"}

\* the URL step just taken assembled a point
UrlAssembled ==
    pc = "loop" /\ idx' = idx + 1 /\ cur' \in {"no_images", "image_error", "full"}

\* ids of the points assembled by the modelled run
AssembledIds == (earlier_runs * PrevUrls + 1)..next_id

\* C1: when a batch upsert fails, every point of the batch is upserted on its own
\* exactly once and in order, whatever the outcome of the points before it; each
\* point submitted is then either persisted or reported failed by its id (so a
\* 16-point batch with one rejected point leaves 15 persisted and 1 reported),
\* and the commit of a full batch, whatever its outcome, leads back to the loop.
C1_FallbackRetriesEachPoint ==
    /\ [](/\ InFallback =>
                /\ k \in 1..Len(batch)
                /\ last_batch = Ids(batch)
                /\ singles = SubSeq(last_batch, 1, k - 1)
          /\ ~InFallback => singles = <<>> \/ singles = last_batch
          /\ \A i \in 1..Len(singles) :
                (singles[i] \in StoreIds) # (singles[i] \in Range(failed_ids))
          /\ Cardinality({i \in 1..Len(singles) : singles[i] \in StoreIds})
                + Cardinality({i \in 1..Len(singles) : singles[i] \in Range(failed_ids)})
                = Len(singles)
          /\ \A id \in submitted :
                \/ id \in StoreIds
                \/ id \in Range(failed_ids)
                \/ InFallback /\ \E i \in k..Len(batch) : batch[i].id = id
          /\ \A i, j \in 1..Len(failed_ids) : failed_ids[i] = failed_ids[j] => i = j)
    /\ [][(pc = "flush" /\ store' = store) => pc' = "fallback"]_vars
    /\ [][(pc = "final_flush" /\ store' = store) => pc' = "final_fallback"]_vars
    /\ [][(pc \in {"flush", "fallback", "sleep"})
             => (pc' \in {"fallback", "sleep", "loop"} /\ idx' = idx)]_vars

\* C1 witness: a full batch of 16 failed, its fallback persisted 15 points and
\* reported 1, and the run went on to a 17th URL and ended
C1_Witness ==
    /\ pc = "done"
    /\ idx = BATCH_SIZE + 1
    /\ commits = 2
    /\ Len(failed_ids) = 1
    /\ failed_ids[1] \in 1..BATCH_SIZE
    /\ total_upserted = BATCH_SIZE
    /\ Cardinality(store) = BATCH_SIZE

\* C2: a URL whose processing fails adds no point, leaves the pending batch, the
\* persisted count and the store as they were, and the loop goes on: it is only
\* left by a step that takes no URL, when the list holds no further one.
C2_UrlFailureAbortsOnlyThatUrl ==
    /\ [][UrlFailed =>
            /\ batch' = batch
            /\ total_upserted' = total_upserted
            /\ store' = store
            /\ submitted' = submitted
            /\ next_id' = next_id
            /\ pc' = "loop"]_vars
    /\ [][(pc = "loop" /\ pc' \in {"final_flush", "final_fallback", "finish", "done"})
            => (idx' = idx /\ cur' = cur)]_vars

\* C2 witness: a URL before the last one failed, the URLs after it gave points
C2_Witness ==
    /\ pc = "done"
    /\ idx >= 3
    /\ cur = "full"
    /\ Len(batch) = idx - 1
    /\ total_upserted = idx - 1

\* C3: the run terminates, taking the URLs one by one; when it has ended every
\* point it assembled was passed to an upsert call, and a partial final batch
\* was committed by a batch call followed, when that failed, by one call per point.
C3_TerminatesWithEverythingSubmitted ==
    /\ <>(pc \in {"done", "raised"})
    /\ [][idx' = idx \/ (idx' = idx + 1 /\ pc = "loop")]_vars
    /\ [](pc = "done" =>
            /\ \A id \in AssembledIds : id \in submitted
            /\ batch # <<>> =>
                  /\ Len(batch) < BATCH_SIZE
                  /\ last_batch = Ids(batch)
                  /\ singles = <<>> \/ singles = last_batch
                  /\ \A i \in 1..Len(batch) :
                        batch[i].id \in StoreIds \/ batch[i].id \in Range(failed_ids))

\* C3 witness: a run ended whose partial final batch went through the fallback
C3_Witness ==
    /\ pc = "done"
    /\ Len(batch) \in 2..(BATCH_SIZE - 1)
    /\ singles = Ids(batch)
    /\ Len(failed_ids) = 1

\* C4: a URL whose text embedding fails gives no point; every other URL that is
\* not given up gives a point with the "text" vector, and with the "image" vector
\* exactly when the record has an image and embedding it succeeded.
C4_TextAlwaysImageWhenEmbedded ==
    /\ [][(pc = "loop" /\ idx' = idx + 1 /\ cur' = "text_error")
             => (batch' = batch /\ store' = store)]_vars
    /\ [][UrlAssembled =>
            /\ Len(batch') = Len(batch) + 1
            /\ "text" \in batch'[Len(batch')].vector
            /\ ("image" \in batch'[Len(batch')].vector) <=> (cur' = "full")
            /\ batch'[Len(batch')].payload.images <=> (cur' \in {"image_error", "full"})]_vars
    /\ [](\A p \in store \cup Range(batch) :
            /\ "text" \in p.vector
            /\ "image" \in p.vector => p.payload.images)

\* C4 witness: a persisted point whose page had an image but whose image
\* embedding failed, and a persisted point with both vectors
C4_Witness ==
    /\ \E p \in store : p.vector = {"text"} /\ p.payload.images
    /\ \E p \in store : p.vector = {"text", "image"}
    /\ cur = "text_error"

\* C5: identifiers never repeat, whatever the URL: the points of earlier runs stay
\* in the store, each persisted point adds one to it, and after a failure-free
\* rerun each product of the earlier runs has one more point.
C5_FreshIdsNeverOverwrite ==
    /\ \A p, q \in store \cup Range(batch) : p.id = q.id => p = q
    /\ EarlierPoints(earlier_runs, PrevUrls) \subseteq store
    /\ Cardinality(store) = earlier_runs * PrevUrls + total_upserted
    /\ \A u \in 1..PrevUrls :
          (pc = "done" /\ u <= idx /\ faults = 0) =>
              Cardinality({p \in store : p.payload.product_url = u}) = earlier_runs + 1

\* C5 witness: the collection was ingested again and its products are there twice or more
C5_Witness ==
    /\ pc = "done"
    /\ earlier_runs >= 1
    /\ idx >= PrevUrls
    /\ \A u \in 1..PrevUrls :
          Cardinality({p \in store : p.payload.product_url = u}) = earlier_runs + 1

BatchCall == commits' = commits + 1

\* C17: the pending batch never holds more than BATCH_SIZE points and the loop
\* never goes on with a full one; a batch committed inside the loop holds
\* exactly BATCH_SIZE points and is emptied whatever the outcome of its commit,
\* the final commit holds 1 to BATCH_SIZE - 1 points, and the points of a batch
\* were in no batch before.
C17_BatchHoldsAtMostBatchSize ==
    /\ [](/\ Len(batch) <= BATCH_SIZE
          /\ pc = "loop" => Len(batch) < BATCH_SIZE
          /\ pc = "sleep" => batch = <<>>
          /\ (pc \in {"flush", "fallback"}) => Len(batch) = BATCH_SIZE)
    /\ [][(BatchCall /\ pc = "flush") => Len(last_batch') = BATCH_SIZE]_vars
    /\ [][(BatchCall /\ pc # "flush")
            => (pc = "final_flush" /\ Len(last_batch') \in 1..(BATCH_SIZE - 1))]_vars
    /\ [][BatchCall =>
            (/\ last_batch' = Ids(batch)
             /\ Range(last_batch') \cap submitted = {}
             /\ \A i, j \in 1..Len(last_batch') :
                   last_batch'[i] = last_batch'[j] => i = j)]_vars
    /\ [][(pc \in {"flush", "fallback"} /\ pc' \notin {"flush", "fallback"})
            => batch' = <<>>]_vars

\* C17 witness: a run committed a full batch, emptied it after the fallback, and
\* committed a final batch of two points
C17_Witness ==
    /\ pc = "done"
    /\ commits = 2
    /\ idx = BATCH_SIZE + 2
    /\ Len(last_batch) = 2
    /\ Len(failed_ids) = 1
    /\ failed_ids[1] <= BATCH_SIZE
    /\ AssembledIds \subseteq submitted

\* the step just taken ends the commit of a batch: the batch call succeeded, or
\* the last point of its fallback was tried
CommitEnds ==
    /\ pc \in {"flush", "fallback", "final_flush", "final_fallback"}
    /\ pc' \notin {"fallback", "final_fallback"}

\* C18 as stated: every batch commit, of a full batch or of the final partial
\* one, is followed by the pause before the run does anything else
C18_PauseAfterEveryCommit ==
    /\ [][CommitEnds => pc' = "sleep"]_vars
    /\ [](pc = "done" => sleeps = commits)

\* C18 amended: the commit of a full batch, direct or through the fallback, is
\* followed by the pause before the next URL is taken; the commit of the final
\* partial batch is followed by the closing print with no pause.
C18_PauseAfterFullBatchOnly ==
    /\ [][(CommitEnds /\ pc \in {"flush", "fallback"}) => pc' = "sleep"]_vars
    /\ [][(pc = "sleep") => (pc' = "loop" /\ sleeps' = sleeps + 1)]_vars
    /\ [][(CommitEnds /\ pc \in {"final_flush", "final_fallback"})
            => (pc' = "finish" /\ sleeps' = sleeps)]_vars
    /\ [][(sleeps' # sleeps) => pc = "sleep"]_vars
    /\ [](/\ pc = "loop" => sleeps = commits
          /\ pc = "done" => sleeps = commits - (IF batch # <<>> THEN 1 ELSE 0))

\* C18 witness: a run ended after a full batch and a final partial batch, with
\* one pause for its two commits
C18_Witness ==
    /\ pc = "done"
    /\ commits = 2
    /\ sleeps = 1
    /\ batch # <<>>

\* ids of the points of the modelled run whose upsert call the store acknowledged
Acknowledged == {id \in submitted : id \in StoreIds}

\* C19 as stated, on the runs it speaks of: the count is incremented around the
\* acknowledgment, so that a run with a failed per-point upsert ends with a
\* count that differs from the number of acknowledged points
C19_CountDivergesFromAcknowledged ==
    (pc = "done" /\ failed_ids # <<>>) =>
        printed_total # Cardinality(Acknowledged)

\* C19 amended: total_upserted is incremented strictly after the store
\* acknowledged a call, by the number of points of that call, and by nothing
\* else; at every moment, the end of a run with failures included, it is the
\* number of points whose upsert call the store acknowledged.
C19_CountIsAcknowledgedPoints ==
    /\ [](total_upserted = Cardinality(Acknowledged))
    /\ [](pc = "done" => printed_total \in {0 - 1, Cardinality(Acknowledged)})
    /\ [][(total_upserted' # total_upserted) =>
            (/\ store' # store
             /\ total_upserted' - total_upserted
                   = Cardinality(StoreIds' \ StoreIds))]_vars
    /\ [][(InFallback /\ failed_ids' # failed_ids)
            => (total_upserted' = total_upserted /\ store' = store)]_vars

\* C19 witness: a run ended whose fallback had a failing point and a succeeding
\* one, the printed count being the number of acknowledged points
C19_Witness ==
    /\ pc = "done"
    /\ Len(failed_ids) = 1
    /\ Len(singles) >= 2
    /\ printed_total = Cardinality(Acknowledged)
    /\ printed_total = Len(singles) - 1

(* ------------------------------------------------------------------ *)
(* Properties of semantic_search                                      *)
(* ------------------------------------------------------------------ *)

Responded == s_pc = "responded"

\* the product_url and the score the store gave the scored point `p`
UrlOf(p) == p.dict.payload.dict.product_url

ScoreOf(p) == p.dict.score.int

\* places of the raw entries whose product_url is `u`
PlacesOf(u) == {i \in 1..Len(s_raw) : UrlOf(s_raw[i]) = u}

\* the raw entry of url `u` with the highest score, the first of them on a tie
BestOf(u) ==
    CHOOSE i \in PlacesOf(u) :
        \A j \in PlacesOf(u) :
            \/ ScoreOf(s_raw[j]) < ScoreOf(s_raw[i])
            \/ ScoreOf(s_raw[j]) = ScoreOf(s_raw[i]) /\ i <= j

\* C6: no two entries of the result share a non-empty product_url; an entry with
\* such a url is the highest-scored raw entry of that url, the first one on equal
\* scores; and when nothing is cut off every such url of the response is there.
C6_OneEntryPerUrlHighestScore ==
    Responded =>
        /\ \A i, j \in 1..Len(s_result) :
              (Truthy(s_result[i].product_url)
                 /\ s_result[i].product_url = s_result[j].product_url) => i = j
        /\ \A i \in 1..Len(s_result) :
              Truthy(s_result[i].product_url)
                 => s_result[i].id = ToString(BestOf(s_result[i].product_url))
        /\ s_limit >= Len(s_raw) =>
              \A u \in {UrlOf(s_raw[i]) : i \in 1..Len(s_raw)} :
                  Truthy(u) =>
                      \E i \in 1..Len(s_result) : s_result[i].id = ToString(BestOf(u))

\* C6 witness: two raw entries of one url and equal score, and a third of that
\* url with a higher score, collapsed to one entry
C6_Witness ==
    /\ Responded
    /\ Len(s_raw) = 3
    /\ \A i \in 1..3 : UrlOf(s_raw[i]) = "u1"
    /\ ScoreOf(s_raw[1]) = ScoreOf(s_raw[2])
    /\ ScoreOf(s_raw[3]) > ScoreOf(s_raw[1])
    /\ Len(s_result) = 1
    /\ s_result[1].id = "3"

\* the combined candidate set, stated from the raw response: the best entry of
\* each non-empty url in the order the urls first appear, then the url-less entries
FirstOfUrl(i) == \A j \in 1..(i - 1) : UrlOf(s_raw[j]) # UrlOf(s_raw[i])

RECURSIVE KeyedFrom(_)
KeyedFrom(i) ==
    IF i > Len(s_raw) THEN <<>>
    ELSE (IF Truthy(UrlOf(s_raw[i])) /\ FirstOfUrl(i)
          THEN <<BestOf(UrlOf(s_raw[i]))>> ELSE <<>>) \o KeyedFrom(i + 1)

RECURSIVE UrllessFrom(_)
UrllessFrom(i) ==
    IF i > Len(s_raw) THEN <<>>
    ELSE (IF Truthy(UrlOf(s_raw[i])) THEN <<>> ELSE <<i>>) \o UrllessFrom(i + 1)

CandidatePlaces == KeyedFrom(1) \o UrllessFrom(1)

\* place of the raw entry `id` in the combined candidate set
CandidateRank(id) == CHOOSE r \in 1..Len(CandidatePlaces) : CandidatePlaces[r] = id

\* the candidates that come before candidate `id` once sorted by score descending, stably
SortsBefore(a, b) ==
    \/ ScoreOf(s_raw[a]) > ScoreOf(s_raw[b])
    \/ ScoreOf(s_raw[a]) = ScoreOf(s_raw[b]) /\ CandidateRank(a) < CandidateRank(b)

\* C7 as stated: the result is the candidate set sorted by score descending,
\* stable on ties, cut to its first `limit` entries: non-increasing in score and
\* of at most `limit` entries (a negative limit is read here as asking for no
\* entry, the reading under which the statement asks least)
C7_SortedStableTruncated ==
    Responded =>
        /\ Len(s_result) <= (IF s_limit > 0 THEN s_limit ELSE 0)
        /\ \A i \in 1..Len(s_result) :
              \* the i-th entry is the candidate with i-1 candidates sorting before it
              \E c \in Range(CandidatePlaces) :
                  /\ s_result[i].id = ToString(c)
                  /\ Cardinality({b \in Range(CandidatePlaces) :
                                     SortsBefore(b, c)}) = i - 1
        /\ \A i \in 1..(Len(s_result) - 1) : s_result[i].score >= s_result[i + 1].score
        /\ (s_limit >= 0 /\ s_limit <= Len(CandidatePlaces)) => Len(s_result) = s_limit

\* C8 as stated: with no canonical url in the response, the number of returned
\* entries is min(limit, number of raw entries) (for a negative limit, which no
\* count can equal, read as no entry)
C8_CountIsMinOfLimitAndInput ==
    (Responded /\ \A i \in 1..Len(s_raw) : ~Truthy(UrlOf(s_raw[i]))) =>
        Len(s_result) = (IF s_limit < 0 THEN 0
                         ELSE IF s_limit < Len(s_raw) THEN s_limit ELSE Len(s_raw))

(* ------------------------------------------------------------------ *)
(* Properties of _point_to_dict                                       *)
(* ------------------------------------------------------------------ *)

\* the entry holds its data at top level: it has nothing under "point"
TopLevelEntry(p) == "point" \notin DOMAIN p.dict

\* the entry is a mapping holding its identifier and payload under "point"
NestedEntry(p) ==
    /\ p.type = "dict"
    /\ Get(p.dict, "point", NoneVal).type = "dict"
    /\ "id" \notin DOMAIN p.dict
    /\ "payload" \notin DOMAIN p.dict

\* where such an entry holds its identifier and its payload
DataOf(p) == IF TopLevelEntry(p) THEN p.dict ELSE p.dict.point.dict

\* the value the payload of the entry has under `key`, PyNone when it has none
PayloadValueOf(p, key) ==
    LET payload == Get(DataOf(p), "payload", NoneVal)
    IN  IF payload.type = "dict" /\ key \in DOMAIN payload.dict
        THEN payload.dict[key] ELSE PyNone

\* C11 as stated: the id is the string form of the entry's identifier, whatever
\* the identifier (0 included); the score is the entry's score, 0.0 when it is
\* absent or falsy; each payload field is the payload's value, null when missing
C11_PointToDictFaithful ==
    (point_dict.called /\ (TopLevelEntry(scored_point) \/ NestedEntry(scored_point))) =>
        LET id    == Get(DataOf(scored_point), "id", NoneVal)
            score == Get(scored_point.dict, "score", NoneVal)
            d     == point_dict.value
        IN  /\ id.type = "number" => d.id = ToString(id.int)
            /\ id.type = "str" => d.id = id.str
            /\ d.score = (IF score.type = "number" THEN score.int ELSE 0)
            /\ \A key \in {"title", "description", "price", "product_url", "images"} :
                  d[key] = PayloadValueOf(scored_point, key)

\* the scored point that _point_to_dict turns into the entry `d`
AsScoredPoint(d) ==
    ObjectVal("ScoredPoint",
              [id      |-> StrVal(d.id),
               score   |-> NumVal(d.score),
               payload |-> DictVal([title       |-> d.title,
                                    description |-> d.description,
                                    price       |-> d.price,
                                    product_url |-> d.product_url,
                                    images      |-> d.images])])

\* C16 as stated: the dedupe, sort and truncate step applied, with the same
\* limit, to a list it produced gives that list back, entry by entry
C16_NormalizeIdempotent ==
    Responded =>
        Normalize([i \in 1..Len(s_result) |-> AsScoredPoint(s_result[i])], s_limit)
            = s_result

(* ------------------------------------------------------------------ *)
(* Properties of _extract_points                                      *)
(* ------------------------------------------------------------------ *)

\* the response is a mapping without "result" and "points", or an object of
\* another class without the attribute `points`
Unrecognized(r) ==
    \/ r.type = "dict" /\ "result" \notin DOMAIN r.dict /\ "points" \notin DOMAIN r.dict
    \/ r.type = "object" /\ "points" \notin DOMAIN r.dict

\* C12 as stated: whatever the shape of the response and whatever a mapping
\* holds under "result" or "points", _extract_points gives a sequence of
\* entries, nothing raises when semantic_search walks through it, and an absent
\* or unrecognized shape gives the empty sequence
C12_ExtractGivesSequence ==
    raw_points.called =>
        /\ raw_points.value.type \in {"list", "tuple"}
        /\ ~raw_points.loop_raises
        /\ (resp.type = "NoneType" \/ Unrecognized(resp)) =>
               (raw_points.value.type = "list" /\ raw_points.value.list = <<>>)

(* ------------------------------------------------------------------ *)
(* Properties of fetch_product_data                                   *)
(* ------------------------------------------------------------------ *)

\* the structured-data object of the page
LdOf(pg) == parse_ld_json(pg.scripts)

\* the image URLs fetch_product_data sees on the page: those of the structured
\* data, the one of the meta tag, and the sources of the img tags made absolute
LdImageUrls(pg) ==
    LET v == extract_images_from_ld(LdOf(pg))
    IN  IF v.type = "list" THEN Range(v.list) ELSE {}

ImageCandidates(pg) ==
    LdImageUrls(pg)
    \cup (IF pg.meta.image.type = "text" THEN {pg.meta.image.list} ELSE {})
    \cup {urljoin(pg.product_url, pg.imgs[i]) :
            i \in {j \in 1..Len(pg.imgs) : pg.imgs[j].path # <<>>}}

\* C13 as stated: when some image candidate of the page holds neither "icon" nor
\* "sprite", no URL of the returned image list holds one of them
C13_NoIconWhenAlternative ==
    (pdata.called /\ ~pdata.raised /\ pdata.value.images.type = "list") =>
        ((\E u \in ImageCandidates(page) : ~IconOrSprite(u))
            => \A i \in 1..Len(pdata.value.images.list) :
                  ~IconOrSprite(pdata.value.images.list[i]))

\* the first value of `sources` that is truthy, NoneVal when none is
RECURSIVE FirstNonEmpty(_)
FirstNonEmpty(sources) ==
    IF sources = <<>> THEN NoneVal
    ELSE IF TruthyVal(Head(sources)) THEN Head(sources)
    ELSE FirstNonEmpty(Tail(sources))

\* the first value of `sources` that is a number, NoneVal when none is
RECURSIVE FirstNumber(_)
FirstNumber(sources) ==
    IF sources = <<>> THEN NoneVal
    ELSE IF Head(sources).type = "number" THEN Head(sources)
    ELSE FirstNumber(Tail(sources))

\* the text found by a selector, as get_text(strip=True) gives it
SelectorText(el) == IF el.type = "text" THEN TextVal(Strip(el.list)) ELSE NoneVal

\* the candidates of each field, highest precedence first: structured data,
\* social-meta tag, selector text (for the price: regex scan of the markup)
TitleSources(pg) ==
    <<Get(LdOf(pg).dict, "name", NoneVal), Get(LdOf(pg).dict, "headline", NoneVal),
      pg.meta.title, SelectorText(pg.title_el)>>

DescriptionSources(pg) ==
    <<Get(LdOf(pg).dict, "description", NoneVal),
      Get(Get(LdOf(pg).dict, "review", NoneVal).dict, "reviewBody", NoneVal),
      pg.meta.description, SelectorText(pg.desc_el)>>

PriceSources(pg) ==
    <<extract_price_from_ld(LdOf(pg)), extract_price_by_selectors(pg.price_els),
      extract_price_from_js(pg.js)>>

\* the text of a field value, stripped; the empty text when there is no value
FieldText(v) == IF v.type = "text" THEN Strip(v.list) ELSE <<>>

\* C14: when fetch_product_data returns, title and description are the (stripped)
\* value of the highest-precedence source with a non-empty value - structured
\* data, then meta tag, then selector text - and the price is the one of the
\* first of structured-data offer, price selector and markup scan that gives a
\* number; every lower source is ignored.
C14_HighestPrecedenceSourceWins ==
    (pdata.called /\ ~pdata.raised) =>
        /\ pdata.value.title = FieldText(FirstNonEmpty(TitleSources(page)))
        /\ pdata.value.description = FieldText(FirstNonEmpty(DescriptionSources(page)))
        /\ pdata.value.price = FirstNumber(PriceSources(page))
        /\ PriceSources(page)[1].type = "number"
              => pdata.value.price = PriceSources(page)[1]
        /\ (LdOf(page).type = "NoneType" /\ TruthyVal(page.meta.title))
              => pdata.value.title = Strip(page.meta.title.list)
        /\ (LdOf(page).type = "NoneType" /\ TruthyVal(page.meta.description))
              => pdata.value.description = Strip(page.meta.description.list)

\* C14 witness: the structured-data price and the selector price differ and the
\* structured-data one is returned; title and description come from the
\* structured data although meta tags and selectors have other values
C14_Witness ==
    /\ pdata.called /\ ~pdata.raised
    /\ PriceSources(page)[1] = NumVal(1)
    /\ PriceSources(page)[2] = NumVal(2)
    /\ PriceSources(page)[3] = NumVal(3)
    /\ pdata.value.price = NumVal(1)
    /\ TruthyVal(page.meta.title) /\ page.title_el.type = "text"
    /\ pdata.value.title = <<"n">>
    /\ TruthyVal(page.meta.description) /\ page.desc_el.type = "text"
    /\ pdata.value.description = <<"r">>

\* C15 as stated: once the markup is there fetch_product_data never raises,
\* whatever the structured data holds, and returns a record with all five keys
C15_NeverRaisesAfterFetch ==
    pdata.called =>
        /\ ~pdata.raised
        /\ DOMAIN pdata.value =
              {"product_url", "title", "description", "price", "images"}

\* every character of the query is whitespace (the empty query included)
Blank(q) == \A i \in 1..Len(q) : q[i] \in Whitespace

\* C9: an empty or whitespace-only query is rejected with a validation error and
\* neither embed_text nor query_points is called; any other query is embedded.
C9_BlankQueryMakesNoCalls ==
    s_pc # "idle" =>
        /\ Blank(s_query) =>
              /\ s_pc = "rejected"
              /\ http_status = 400
              /\ embed_calls = 0
              /\ store_calls = 0
        /\ ~Blank(s_query) => s_pc # "rejected" /\ embed_calls = 1

\* C9 witness: a query of whitespace only was rejected
C9_Witness ==
    /\ s_pc = "rejected"
    /\ s_query # <<>>
    /\ embed_calls = 0
    /\ store_calls = 0

====
